---------------------------- MODULE Spec2Model ----------------------------
(***************************************************************************)
(* A model of taf (src/index.js): a Taf session tails one file.  The       *)
(* constructor probes the file size, reads the last `count` lines with     *)
(* readLastLines and arms an fs.watch watcher; every 'change' event probes *)
(* the size again and, when the file grew, reads [_size, newSize).         *)
(* Every fs call is asynchronous: a request is issued by one handler and   *)
(* its callback runs later, in any order with the other callbacks.         *)
(***************************************************************************)
EXTENDS Integers, Sequences, FiniteSets, Bags

VARIABLES
    file,        \* the bytes of the watched file
    shrunk,      \* history: the file has been truncated
    count,       \* this.count, the `n` of the constructor
    pc,          \* "nextTick": the constructor's process.nextTick callback is pending
    watcher,     \* this.watcher: "none" (undefined), "armed", "closed"
    _size,       \* this._size
    stats,       \* fs.stat requests in flight
    scans,       \* readLastLines invocations in flight
    log,         \* the events emitted so far ('line' and 'error'), in order
    fds,         \* file descriptors opened and not closed
    nscans,      \* readLastLines invocations started so far
    nchanges,    \* 'change' events delivered so far
    closeThrew,  \* close() has thrown (this.watcher was undefined)
    path,        \* the variable path of setWatcher, which its listener reads
    selfPath,    \* this.path
    lastRename,  \* history: the filename of the last 'rename' event followed
    offsets      \* history: the values this._size has been set to

pathVars == <<path, selfPath, lastRename>>

vars == <<file, shrunk, count, pc, watcher, _size, stats, scans, log, fds,
          nscans, nchanges, closeThrew, pathVars, offsets>>

(* Bounds of the model. *)
MaxFile == 2
MaxInit == 1
MaxCount == 2
MaxChanges == 1

(* '\n' in utf8 *)
NL == 10
(* the other byte of the model: 'a' *)
Bytes == {NL, 97}
(* new Buffer(1): not initialised by old builds, zero-filled by new ones.  *)
(* Uninit marks a buf no read has written; UninitBytes is what it may hold. *)
Uninit == -1
UninitBytes == Bytes \cup {0}

RECURSIVE SeqsUpTo(_, _)
SeqsUpTo(S, k) ==
    IF k = 0 THEN {<<>>}
    ELSE LET shorter == SeqsUpTo(S, k - 1)
         IN  shorter \cup {Append(s, b) : s \in shorter, b \in S}

(***************************************************************************)
(* fs.stat: stats.size                                                     *)
(***************************************************************************)
StatSize(f) == Len(f)

(***************************************************************************)
(* buf + cur: the one byte of buf decoded as utf8 and prepended.  A byte   *)
(* below 128 decodes to the character of that code, any other byte alone   *)
(* to U+FFFD.                                                              *)
(***************************************************************************)
BufToString(b) == IF b < 128 THEN <<b>> ELSE <<65533>>

(***************************************************************************)
(* fs.read(fd, buf, 0, 1, position): the values buf[0] may hold afterwards.*)
(* A negative position reads at the descriptor's own offset fpos; a read   *)
(* at or past the end of the file reads nothing and leaves buf as it was.  *)
(***************************************************************************)
ReadOffset(position, fpos) == IF position < 0 THEN fpos ELSE position

ReadByte(f, position, fpos, old) ==
    LET off == ReadOffset(position, fpos)
    IN  IF off < Len(f) THEN {f[off + 1]}
        ELSE IF old = Uninit THEN UninitBytes
        ELSE {old}

ReadFpos(f, position, fpos) ==
    IF position < 0 /\ fpos < Len(f) THEN fpos + 1 ELSE fpos

(***************************************************************************)
(* The callback of fs.read in readChar, for a scan s whose read at s.pos   *)
(* left byte b in buf: classify the byte, then either issue the next read  *)
(* at --pos or fs.close.  Each result line carries the position its text   *)
(* starts at (history, not read by the program).                           *)
(***************************************************************************)
ContinueScanOneMore(pos, from, ctr, n) == pos >= from /\ ctr <= n

ContinueScan(pos, from, ctr, n) == pos >= from /\ ctr < n

readChar(s, f, b) ==
    LET res1 == IF b = NL /\ s.ctr # 0
                THEN <<[start |-> s.pos + 1, text |-> s.cur]>> \o s.res
                ELSE s.res
        ctr1 == IF b = NL
                THEN (IF s.ctr # 0 THEN Len(res1) ELSE s.ctr + 1)
                ELSE s.ctr
        cur1 == IF b = NL THEN <<>> ELSE BufToString(b) \o s.cur
        more == ContinueScan(s.pos, s.from, ctr1, s.n)
    IN  [s EXCEPT !.buf  = b,
                  !.fpos = ReadFpos(f, s.pos, s.fpos),
                  !.res  = res1,
                  !.ctr  = ctr1,
                  !.cur  = cur1,
                  !.pos  = IF more THEN s.pos - 1 ELSE s.pos,
                  !.reads = IF more THEN s.reads + 1 ELSE s.reads,
                  !.st   = IF more THEN "read" ELSE "close"]

(***************************************************************************)
(* Paths: a directory and a name in it.  The constructor is given          *)
(* './test.log' (src/test.js); a 'rename' event carries a filename or      *)
(* none.  dirname(path) and resolve(dir, filename) for a plain filename.   *)
(***************************************************************************)
InitialPath == [dir |-> ".", name |-> "test.log"]
NoName == "none"
Filenames == {"test.log", "moved.log"}

dirname(p) == p.dir
resolve(dir, filename) == [dir |-> dir, name |-> filename]

(***************************************************************************)
(* readLastLines(path, from, pos, n, cb) up to its fs.open call.  id,      *)
(* initial (the constructor's scan), probed (the path of the fs.stat that  *)
(* led to it), solo (no other scan was in flight when this one started)    *)
(* and reads (the fs.read calls issued) are history, not read by the       *)
(* program.                                                                *)
(***************************************************************************)
readLastLines(id, initial, probed, solo, p, from, newSize, n) ==
    [id |-> id, initial |-> initial, probed |-> probed, solo |-> solo,
     reads |-> 0,
     path |-> p, from |-> from, to |-> newSize, n |-> n,
     pos |-> newSize, ctr |-> 0, cur |-> <<>>, res |-> <<>>, buf |-> Uninit,
     fpos |-> 0, st |-> "open"]

(***************************************************************************)
(* processFileChange(newSize) up to its readLastLines call, which reads    *)
(* this.path, this._size and this.count.                                   *)
(***************************************************************************)
processFileChangeFromStart(id, initial, probed, newSize) ==
    readLastLines(id, initial, probed, scans = {}, selfPath, 0, newSize,
                  count)

processFileChange(id, initial, probed, newSize) ==
    readLastLines(id, initial, probed, scans = {}, selfPath, _size, newSize,
                  count)

(* fs.stat(path, cb) as issued; the file system fills in st and size. *)
NewStat(initial, p) ==
    [initial |-> initial, path |-> p, st |-> "pending", size |-> 0]

LineEvent(id, l) == [type |-> "line", scan |-> id, start |-> l.start, text |-> l.text]
ErrorEvent(id)   == [type |-> "error", scan |-> id, start |-> -1, text |-> <<>>]

LineEvents(id, res) == [i \in 1..Len(res) |-> LineEvent(id, res[i])]

Init ==
    /\ file \in SeqsUpTo(Bytes, MaxInit)
    /\ shrunk = FALSE
    /\ count \in 0..MaxCount
    /\ pc = "nextTick"
    /\ watcher = "none"
    /\ _size = 0
    /\ stats = EmptyBag
    /\ scans = {}
    /\ log = <<>>
    /\ fds = 0
    /\ nscans = 0
    /\ nchanges = 0
    /\ closeThrew = FALSE
    /\ path = InitialPath
    /\ selfPath = InitialPath
    /\ lastRename = NoName
    /\ offsets = {}

(* Another process appends one byte to the file, of at most max bytes. *)
AppendUpTo(max) ==
    /\ Len(file) < max
    /\ \E b \in Bytes : file' = Append(file, b)
    /\ UNCHANGED <<shrunk, count, pc, watcher, _size, stats, scans, log, fds,
                   nscans, nchanges, closeThrew, pathVars, offsets>>

AppendByte == AppendUpTo(MaxFile)

(* Another process truncates the file. *)
Truncate ==
    /\ \E m \in 0..(Len(file) - 1) : file' = SubSeq(file, 1, m)
    /\ shrunk' = TRUE
    /\ UNCHANGED <<count, pc, watcher, _size, stats, scans, log, fds,
                   nscans, nchanges, closeThrew, pathVars, offsets>>

(* The process.nextTick callback of the constructor: fs.stat(path, ...). *)
Tick ==
    /\ pc = "nextTick"
    /\ pc' = "started"
    /\ stats' = stats (+) SetToBag({NewStat(TRUE, InitialPath)})
    /\ UNCHANGED <<file, shrunk, count, watcher, _size, scans, log, fds,
                   nscans, nchanges, closeThrew, pathVars, offsets>>

(* The file system serves a pending fs.stat: it samples the size, or fails. *)
StatServe ==
    \E r \in BagToSet(stats) :
        /\ r.st = "pending"
        /\ \E served \in {[r EXCEPT !.st = "ok", !.size = StatSize(file)],
                          [r EXCEPT !.st = "err"]} :
              stats' = (stats (-) SetToBag({r})) (+) SetToBag({served})
        /\ UNCHANGED <<file, shrunk, count, pc, watcher, _size, scans, log, fds,
                       nscans, nchanges, closeThrew, pathVars, offsets>>

(***************************************************************************)
(* The fs.stat callback of the constructor: on error emit 'error' and      *)
(* return; else _processFileChange(stats.size), which calls readLastLines  *)
(* from this._size, and then _setWatcher().                                *)
(***************************************************************************)
setWatcherAlways(st, w) == "armed"

setWatcher(st, w) == IF st = "err" THEN w ELSE "armed"

InitStatCb ==
    \E r \in BagToSet(stats) :
        /\ r.initial
        /\ r.st # "pending"
        /\ stats' = stats (-) SetToBag({r})
        /\ IF r.st = "err"
           THEN /\ log' = Append(log, ErrorEvent(0))
                /\ UNCHANGED <<scans, nscans>>
           ELSE /\ scans' = scans \cup {processFileChange(nscans + 1, TRUE, r.path, r.size)}
                /\ nscans' = nscans + 1
                /\ log' = log
        /\ watcher' = setWatcher(r.st, watcher)
        /\ UNCHANGED <<file, shrunk, count, pc, _size, fds, nchanges,
                       closeThrew, pathVars, offsets>>

(* fs.watch delivers a 'change' event, one of at most max: the listener   *)
(* calls fs.stat(path, ...).                                                *)
ChangeUpTo(max) ==
    /\ watcher = "armed"
    /\ nchanges < max
    /\ nchanges' = nchanges + 1
    /\ stats' = stats (+) SetToBag({NewStat(FALSE, path)})
    /\ UNCHANGED <<file, shrunk, count, pc, watcher, _size, scans, log, fds,
                   nscans, closeThrew, pathVars, offsets>>

WatchChange == ChangeUpTo(MaxChanges)

(***************************************************************************)
(* fs.watch delivers a 'rename' event.  With a filename the listener sets  *)
(* path and this.path to resolve(dirname(path), filename); without one it  *)
(* does nothing.                                                           *)
(***************************************************************************)
RenameKeepsPath(p, filename) == p

RenameTarget(p, filename) == resolve(dirname(p), filename)

WatchRename ==
    /\ watcher = "armed"
    /\ \E filename \in Filenames \cup {NoName} :
          IF filename = NoName
          THEN UNCHANGED pathVars
          ELSE /\ path' = RenameTarget(path, filename)
               /\ selfPath' = path'
               /\ lastRename' = filename
    /\ UNCHANGED <<file, shrunk, count, pc, watcher, _size, stats, scans, log,
                   fds, nscans, nchanges, closeThrew, offsets>>

(***************************************************************************)
(* The fs.stat callback of the 'change' listener: on error emit 'error';   *)
(* if stats.size > this._size, _processFileChange(stats.size).             *)
(***************************************************************************)
Grew(size, lastSize) == size > lastSize

WatchStatCb ==
    \E r \in BagToSet(stats) :
        /\ ~r.initial
        /\ r.st # "pending"
        /\ stats' = stats (-) SetToBag({r})
        /\ IF r.st = "err"
           THEN /\ log' = Append(log, ErrorEvent(0))
                /\ UNCHANGED <<scans, nscans>>
           ELSE /\ log' = log
                /\ IF Grew(r.size, _size)
                   THEN /\ scans' = scans \cup
                                {processFileChange(nscans + 1, FALSE, r.path,
                                                   r.size)}
                        /\ nscans' = nscans + 1
                   ELSE UNCHANGED <<scans, nscans>>
        /\ UNCHANGED <<file, shrunk, count, pc, watcher, _size, fds, nchanges,
                       closeThrew, pathVars, offsets>>

(***************************************************************************)
(* The callback of processFileChange on an error: emit 'error' and return, *)
(* before this._size = newSize.                                            *)
(***************************************************************************)
SizeAfterErrorAdvanced(lastSize, newSize) == newSize

SizeAfterError(lastSize, newSize) == lastSize

(***************************************************************************)
(* The fs.open callback of readLastLines: on error cb(err, null), which    *)
(* emits 'error'; else allocate buf and call readChar(), which issues the  *)
(* read at --pos.                                                          *)
(***************************************************************************)
OpenCb ==
    \E s \in scans :
        /\ s.st = "open"
        /\ \/ /\ scans' = (scans \ {s}) \cup {[s EXCEPT !.st = "read", !.pos = s.pos - 1,
                                                    !.reads = 1]}
              /\ fds' = fds + 1
              /\ log' = log
              /\ _size' = _size
           \/ /\ scans' = scans \ {s}
              /\ log' = Append(log, ErrorEvent(s.id))
              /\ fds' = fds
              /\ _size' = SizeAfterError(_size, s.to)
        /\ UNCHANGED <<file, shrunk, count, pc, watcher, stats, nscans,
                       nchanges, closeThrew, pathVars, offsets>>

(***************************************************************************)
(* The fs.read callback of readChar: on error cb(err, null), which emits   *)
(* 'error' (the descriptor stays open); else the body of the callback.     *)
(***************************************************************************)
ReadCb ==
    \E s \in scans :
        /\ s.st = "read"
        /\ \/ /\ \E b \in ReadByte(file, s.pos, s.fpos, s.buf) :
                    scans' = (scans \ {s}) \cup {readChar(s, file, b)}
              /\ log' = log
              /\ _size' = _size
           \/ /\ scans' = scans \ {s}
              /\ log' = Append(log, ErrorEvent(s.id))
              /\ _size' = SizeAfterError(_size, s.to)
        /\ UNCHANGED <<file, shrunk, count, pc, watcher, stats, fds,
                       nscans, nchanges, closeThrew, pathVars, offsets>>

(***************************************************************************)
(* The fs.close callback of readChar: cb(null, res), the callback of       *)
(* processFileChange: this._size = newSize, then one 'line' event per line *)
(* of res, in order.                                                       *)
(***************************************************************************)
CommitSizePastEnd(newSize) == newSize + 1

CommitSize(newSize) == newSize

CloseCb ==
    \E s \in scans :
        /\ s.st = "close"
        /\ scans' = scans \ {s}
        /\ fds' = fds - 1
        /\ _size' = CommitSize(s.to)
        /\ log' = log \o LineEvents(s.id, s.res)
        /\ offsets' = offsets \cup {_size'}
        /\ UNCHANGED <<file, shrunk, count, pc, watcher, stats, nscans,
                       nchanges, closeThrew, pathVars>>

(***************************************************************************)
(* close(): this.watcher.close().  Before _setWatcher has run this.watcher *)
(* is undefined and the call throws.                                       *)
(***************************************************************************)
close ==
    /\ IF watcher = "none"
       THEN closeThrew' = TRUE /\ watcher' = watcher
       ELSE watcher' = "closed" /\ closeThrew' = closeThrew
    /\ UNCHANGED <<file, shrunk, count, pc, _size, stats, scans, log, fds,
                   nscans, nchanges, pathVars, offsets>>

Next ==
    \/ AppendByte
    \/ Tick
    \/ StatServe
    \/ InitStatCb
    \/ WatchChange
    \/ WatchStatCb
    \/ OpenCb
    \/ ReadCb
    \/ CloseCb
    \/ close

Spec == Init /\ [][Next]_vars

(***************************************************************************)
(* The same session on a file that another process may truncate, followed  *)
(* up to the first truncation: the properties checked under SpecTrunc are  *)
(* about the states before it and the state it leaves.                     *)
(***************************************************************************)
NextTrunc ==
    \/ ~shrunk /\ AppendByte
    \/ ~shrunk /\ Truncate
    \/ ~shrunk /\ Tick
    \/ ~shrunk /\ StatServe
    \/ ~shrunk /\ InitStatCb
    \/ ~shrunk /\ WatchChange
    \/ ~shrunk /\ WatchStatCb
    \/ ~shrunk /\ OpenCb
    \/ ~shrunk /\ ReadCb
    \/ ~shrunk /\ CloseCb
    \/ ~shrunk /\ close

SpecTrunc == Init /\ [][NextTrunc]_vars

(***************************************************************************)
(* The session with the 'rename' events of the watcher, while nobody       *)
(* calls close() and 'change' events arrive only while the session is idle *)
(* (no fs.stat and no scan in flight); 'rename' events arrive at any time. *)
(***************************************************************************)
IdleChange ==
    /\ scans = {}
    /\ stats = EmptyBag
    /\ WatchChange

NextRename ==
    \/ AppendByte
    \/ Tick
    \/ StatServe
    \/ InitStatCb
    \/ IdleChange
    \/ WatchRename
    \/ WatchStatCb
    \/ OpenCb
    \/ ReadCb
    \/ CloseCb

SpecRename == Init /\ [][NextRename]_vars

(***************************************************************************)
(* The session when 'change' events arrive only while it is idle (no       *)
(* fs.stat and no scan in flight), which leaves room for a longer file and *)
(* one more event.                                                         *)
(***************************************************************************)
SerialAppend == AppendUpTo(MaxFile + 1)

SerialChange ==
    /\ scans = {}
    /\ stats = EmptyBag
    /\ ChangeUpTo(MaxChanges + 1)

NextSerial ==
    \/ SerialAppend
    \/ Tick
    \/ StatServe
    \/ InitStatCb
    \/ SerialChange
    \/ WatchStatCb
    \/ OpenCb
    \/ ReadCb
    \/ CloseCb
    \/ close

SpecSerial == Init /\ [][NextSerial]_vars

(***************************************************************************)
(* readLastLines alone: one call over any range [from, to) of any file of  *)
(* the bytes '\n', 'a' and the two bytes of a two-byte utf8 character,     *)
(* for any n, on a file nobody writes meanwhile.                           *)
(***************************************************************************)
ScanBytes == Bytes \cup {195, 169}

InitScan ==
    /\ file \in SeqsUpTo(ScanBytes, MaxFile + 2)
    /\ shrunk = FALSE
    /\ count \in 0..MaxCount
    /\ pc = "started"
    /\ watcher = "armed"
    /\ _size \in 0..Len(file)
    /\ stats = EmptyBag
    /\ \E to \in 0..Len(file) :
          /\ _size <= to
          /\ scans = {readLastLines(1, FALSE, InitialPath, TRUE, InitialPath,
                                 _size, to, count)}
    /\ log = <<>>
    /\ fds = 0
    /\ nscans = 1
    /\ nchanges = 0
    /\ closeThrew = FALSE
    /\ path = InitialPath
    /\ selfPath = InitialPath
    /\ lastRename = NoName
    /\ offsets = {}

NextScan ==
    \/ OpenCb
    \/ ReadCb
    \/ CloseCb

SpecScan == InitScan /\ [][NextScan]_vars

(***************************************************************************)
(* What the properties below speak of.                                     *)
(***************************************************************************)
IsLine(e) == e.type = "line"
IsError(e) == e.type = "error"

(* The 'line' events emitted so far, and the events the current step emits. *)
Emitted == SelectSeq(log, IsLine)
NewEvents == SubSeq(log', Len(log) + 1, Len(log'))
Texts(evs) == [i \in 1..Len(evs) |-> evs[i].text]

NoErrorSoFar == \A i \in 1..Len(log) : ~IsError(log[i])

(* The step is the completion (fs.close callback) of scan s. *)
Completes(s) == s \in scans /\ s.st = "close" /\ s \notin scans'

(* The complete, newline-terminated lines of content c, oldest first, read *)
(* forward; what follows the last newline is no line.  Every byte of the   *)
(* model is ASCII, so a line's text is its bytes.                          *)
RECURSIVE LinesFrom(_, _, _)
LinesFrom(c, i, cur) ==
    IF i > Len(c) THEN <<>>
    ELSE IF c[i] = NL THEN <<cur>> \o LinesFrom(c, i + 1, <<>>)
    ELSE LinesFrom(c, i + 1, Append(cur, c[i]))

CompleteLines(c) == LinesFrom(c, 1, <<>>)

(* c is a sequence of newline-terminated lines, at least one. *)
Terminated(c) == c # <<>> /\ c[Len(c)] = NL

LastN(seq, n) == SubSeq(seq, Len(seq) - n + 1, Len(seq))

(* The bytes [from, to) of the file. *)
Range(from, to) == SubSeq(file, from + 1, to)

(* Growth scan s ran with no other scan in flight, from the current        *)
(* this._size, after everything before it succeeded, and the bytes before  *)
(* its range end with a newline or are none.                               *)
GrowthStep(s) ==
    /\ ~s.initial
    /\ s.solo
    /\ scans = {s}
    /\ s.from = _size
    /\ NoErrorSoFar
    /\ (s.from = 0 \/ file[s.from] = NL)

(***************************************************************************)
(* C1.  Initial backlog: when the file is k newline-terminated lines and   *)
(* 1 <= n <= k, the construction-time scan emits exactly the last n lines, *)
(* in file order.                                                          *)
(***************************************************************************)
C1_InitialBacklog ==
    [][\A s \in scans :
          LET c == Range(0, s.to)
              lines == CompleteLines(c)
          IN  (/\ Completes(s)
               /\ s.initial
               /\ Terminated(c)
               /\ 1 <= s.n
               /\ s.n <= Len(lines))
              => Texts(NewEvents) = LastN(lines, s.n)]_vars

(***************************************************************************)
(* C2.  Short file: when the file holds fewer than n complete lines, the   *)
(* construction-time scan emits every complete line, the first line of the *)
(* file included, oldest first, and leaves out only an unterminated        *)
(* trailing partial line.                                                  *)
(***************************************************************************)
C2_ShortFile ==
    [][\A s \in scans :
          LET lines == CompleteLines(Range(0, s.to))
          IN  (/\ Completes(s)
               /\ s.initial
               /\ Len(lines) < s.n)
              => Texts(NewEvents) = lines]_vars

(***************************************************************************)
(* C3.  Incremental correctness: with _size = S1 already scanned, when     *)
(* exactly k <= n newline-terminated lines are appended and one change     *)
(* notification is served at size S2, the growth scan emits exactly those  *)
(* k lines, in file order, and leaves _size = S2.                          *)
(***************************************************************************)
C3_Incremental ==
    [][\A s \in scans :
          LET delta == Range(s.from, s.to)
              lines == CompleteLines(delta)
          IN  (/\ Completes(s)
               /\ GrowthStep(s)
               /\ Terminated(delta)
               /\ Len(lines) <= s.n)
              => /\ Texts(NewEvents) = lines
                 /\ _size' = s.to]_vars

(***************************************************************************)
(* C4.  Overflow truncation: when more than n newline-terminated lines are *)
(* appended in one growth step, the growth scan emits exactly the n most   *)
(* recent of them, in file order (the first half of the claim: the older   *)
(* lines of the delta are not emitted by this scan).                       *)
(***************************************************************************)
C4_Overflow ==
    [][\A s \in scans :
          LET delta == Range(s.from, s.to)
              lines == CompleteLines(delta)
          IN  (/\ Completes(s)
               /\ GrowthStep(s)
               /\ Terminated(delta)
               /\ Len(lines) > s.n)
              => Texts(NewEvents) = LastN(lines, s.n)]_vars

(***************************************************************************)
(* C5.  Scan serialization: a session never has more than one              *)
(* readLastLines invocation in flight.                                     *)
(***************************************************************************)
C5_ScansSerialized == Cardinality(scans) <= 1

(***************************************************************************)
(* C6.  At-most-once delivery: on a file that is only appended to, no line *)
(* of the file, identified by the byte position it starts at, is emitted   *)
(* as a 'line' event more than once.                                       *)
(***************************************************************************)
C6_AtMostOnce ==
    \A i, j \in 1..Len(Emitted) :
        i # j => Emitted[i].start # Emitted[j].start

(***************************************************************************)
(* C7.  Offset monotonicity: _size never decreases, and the completion of  *)
(* a growth-triggered scan sets it to a value strictly greater than the    *)
(* one it held just before.                                                *)
(***************************************************************************)
C7_OffsetMonotone ==
    [][/\ _size' >= _size
       /\ \A s \in scans : (Completes(s) /\ ~s.initial) => _size' > _size]_vars

(***************************************************************************)
(* C8.  Offset bound, as claimed: whenever no scan is in flight,           *)
(* 0 <= _size <= the current size of the file, also after a truncation.    *)
(***************************************************************************)
C8_OffsetBoundAlways == scans = {} => (0 <= _size /\ _size <= Len(file))

(***************************************************************************)
(* C8, amended.  Offset bound on a file that has only been appended to:    *)
(* whenever no scan is in flight and the file has never been truncated,    *)
(* 0 <= _size <= the current size of the file.                             *)
(***************************************************************************)
C8_OffsetBoundAppendOnly ==
    (scans = {} /\ ~shrunk) => (0 <= _size /\ _size <= Len(file))

(* A growth scan has run to completion on an intact file, no scan is in    *)
(* flight and _size is the size of the file.                               *)
C8_Witness ==
    /\ scans = {}
    /\ ~shrunk
    /\ NoErrorSoFar
    /\ nscans = 2
    /\ _size = Len(file)
    /\ _size = MaxFile

(***************************************************************************)
(* C9.  Discard after close: once close() has closed the watcher, no       *)
(* 'line' event is emitted, also not by a scan that was in flight.         *)
(***************************************************************************)
C9_NoLineAfterClose ==
    [][watcher = "closed" => Emitted' = Emitted]_vars

(***************************************************************************)
(* C10.  No scan after close: once close() has closed the watcher, no new  *)
(* readLastLines scan is started, also not by the callback of a size probe *)
(* issued before close().                                                  *)
(***************************************************************************)
C10_NoScanAfterClose ==
    [][watcher = "closed" => nscans' = nscans]_vars

(***************************************************************************)
(* C11.  close() in any lifecycle state: close() never fails, whenever it  *)
(* is called, also before the watcher exists; and a closed watcher stays   *)
(* closed, the session arms no watcher afterwards.                         *)
(***************************************************************************)
C11_CloseAnyTime ==
    [][/\ ~closeThrew'
       /\ (watcher = "closed" => watcher' = "closed")]_vars

(* The step is the failure of a read of scan s: the scan ends in state     *)
(* "read" and no scan of its id goes on.                                   *)
ReadFails(s) ==
    /\ s \in scans
    /\ s.st = "read"
    /\ \A t \in scans' : t.id # s.id

(***************************************************************************)
(* C12.  Error isolation: a read failure during a scan started by a        *)
(* 'change' event emits exactly one 'error' event, leaves _size and the    *)
(* watcher as they were, and no 'line' event ever comes from a scan that   *)
(* has emitted an 'error'.                                                 *)
(***************************************************************************)
C12_ErrorIsolation ==
    [][/\ \A s \in scans :
            (~s.initial /\ ReadFails(s)) =>
                /\ NewEvents = <<ErrorEvent(s.id)>>
                /\ _size' = _size
                /\ watcher' = watcher
       /\ \A i, j \in 1..Len(log') :
            (IsError(log'[i]) /\ log'[i].scan # 0 /\ IsLine(log'[j]))
                => log'[j].scan # log'[i].scan]_vars

(* The only error so far was a failed read of a growth scan (it is the     *)
(* one descriptor still open), and the scan of a later 'change' event has  *)
(* completed, emitted a line and advanced _size to the size of the file,   *)
(* the watcher still armed.                                                *)
C12_Witness ==
    /\ scans = {}
    /\ fds = 1
    /\ watcher = "armed"
    /\ _size = Len(file)
    /\ \E i, j \in 1..Len(log) :
          /\ i < j
          /\ IsError(log[i])
          /\ log[i].scan >= 2
          /\ IsLine(log[j])
          /\ log[j].scan > log[i].scan
          /\ log[j].start >= 1
          /\ \A k \in 1..Len(log) : IsError(log[k]) => k = i

(* The constructor's fs.stat is in flight: issued and its callback not run. *)
InitialProbeInFlight == \E r \in BagToSet(stats) : r.initial

(* The step is the constructor's fs.stat callback getting an error. *)
InitialProbeFails ==
    \E r \in BagToSet(stats) : r.initial /\ r.st = "err" /\ ~BagIn(r, stats')

(* The constructor's fs.stat callback has run and has started no scan. *)
InitialProbeFailed == pc = "started" /\ ~InitialProbeInFlight /\ nscans = 0

(***************************************************************************)
(* C13.  Initial probe failure: when the constructor's fs.stat fails, its  *)
(* callback emits exactly one 'error' event, starts no scan and arms no    *)
(* watcher; from then on the session has no watcher, no scan and no other  *)
(* event than that one.                                                    *)
(***************************************************************************)
C13_InitialProbeFailure ==
    [][/\ InitialProbeFails =>
            /\ NewEvents = <<ErrorEvent(0)>>
            /\ scans' = scans
            /\ nscans' = nscans
            /\ watcher' = "none"
       /\ InitialProbeFailed =>
            /\ watcher' = "none"
            /\ scans' = {}
            /\ nscans' = 0
            /\ stats' = EmptyBag
            /\ log' = <<ErrorEvent(0)>>]_vars

(* The constructor's fs.stat has failed, and the file has grown since. *)
C13_Witness ==
    /\ InitialProbeFailed
    /\ log = <<ErrorEvent(0)>>
    /\ watcher = "none"
    /\ Len(file) = MaxFile

(* The fs.stat calls and the scans the current step issues. *)
NewStats ==
    {r \in BagToSet(stats') :
        r.st = "pending" /\ CopiesIn(r, stats') > CopiesIn(r, stats)}
NewScans == {s \in scans' : \A t \in scans : t.id # s.id}

(* The step is a 'rename' event that carries a filename. *)
Renames == lastRename' # lastRename \/ path' # path \/ selfPath' # selfPath

(***************************************************************************)
(* C14.  Rename-follow: once a 'rename' event with a filename has been     *)
(* followed, the path of the session is that filename in the directory of  *)
(* the path given at construction; the step that follows it emits nothing, *)
(* leaves _size, the watcher, the probes and the scans as they are; and    *)
(* every fs.stat and every scan issued for a 'change' event uses the       *)
(* path of the session at that time.                                       *)
(***************************************************************************)
C14_RenameFollow ==
    [][/\ lastRename' # NoName =>
            /\ path' = [dir |-> InitialPath.dir, name |-> lastRename']
            /\ selfPath' = path'
       /\ Renames =>
            /\ log' = log
            /\ _size' = _size
            /\ watcher' = watcher
            /\ stats' = stats
            /\ scans' = scans
       /\ \A r \in NewStats : ~r.initial => r.path = path'
       /\ \A s \in NewScans : ~s.initial => s.path = selfPath']_vars

(* After a 'rename' event to "moved.log", a 'change' event has led to a    *)
(* fs.stat and a scan of the new path, and the scan has completed.         *)
C14_Witness ==
    /\ lastRename = "moved.log"
    /\ path.name = "moved.log"
    /\ \E s \in scans :
          /\ ~s.initial
          /\ s.probed.name = "moved.log"
          /\ s.path.name = "moved.log"
          /\ s.st = "close"
          /\ s.res # <<>>

(***************************************************************************)
(* C15.  Result bound: for every content, every range [from, to) and every *)
(* n >= 0, readLastLines never holds more than n lines in res, and its     *)
(* callback emits at most n 'line' events.                                 *)
(***************************************************************************)
C15_ResultBound ==
    /\ \A s \in scans : Len(s.res) <= s.n
    /\ Len(Emitted) <= count

(* A scan with n = MaxCount has read its way to n lines and is about to    *)
(* close the file, short of the lower end of its range.                    *)
C15_Witness ==
    \E s \in scans :
        /\ s.st = "close"
        /\ s.n = MaxCount
        /\ Len(s.res) = s.n
        /\ s.pos >= s.from

(***************************************************************************)
(* C16.  Arming order: while the constructor's scan is in flight the       *)
(* watcher is not yet armed and no 'change' event has been handled; the    *)
(* watcher is armed only once that scan has completed.                     *)
(***************************************************************************)
C16_ArmedAfterInitialScan ==
    (\E s \in scans : s.initial) => (watcher = "none" /\ nchanges = 0)

(***************************************************************************)
(* C17.  Handle release: every file descriptor opened by readLastLines is  *)
(* closed however the scan ends; the descriptors open are those of the     *)
(* scans in flight that have opened the file.                              *)
(***************************************************************************)
C17_HandleRelease ==
    fds = Cardinality({s \in scans : s.st # "open"})

(***************************************************************************)
(* C18.  Empty range: readLastLines with from = to returns an empty       *)
(* result and issues no read; its only I/O is one open and one close.      *)
(***************************************************************************)
C18_EmptyRangeNoRead ==
    \A s \in scans : s.from = s.to => (s.res = <<>> /\ s.reads = 0)

(* The file line that starts at byte p and whose newline is byte q is      *)
(* split at offset t: bytes of it lie below t, its newline does not.       *)
SplitAt(p, q, t) == p < t /\ t <= q

RECURSIVE Utf8Decode(_)
Utf8Decode(bs) ==
    IF bs = <<>> THEN <<>>
    ELSE IF bs[1] < 128 THEN <<bs[1]>> \o Utf8Decode(Tail(bs))
    ELSE IF bs[1] \in 194..223 /\ Len(bs) >= 2 /\ bs[2] \in 128..191
         THEN <<(bs[1] - 192) * 64 + (bs[2] - 128)>> \o Utf8Decode(Tail(Tail(bs)))
    ELSE <<65533>> \o Utf8Decode(Tail(bs))

(* text is the line of the file that starts at byte p: the bytes from p up *)
(* to the next newline, decoded.                                           *)
IsFileLine(p, text) ==
    \E q \in p..(Len(file) - 1) :
        /\ file[q + 1] = NL
        /\ \A k \in (p + 1)..q : file[k] # NL
        /\ text = Utf8Decode(SubSeq(file, p + 1, q))

(***************************************************************************)
(* C20.  Emitted-line soundness: on a file that is only appended to, the   *)
(* text of every 'line' event is a whole line of the file: the decoded     *)
(* bytes between a newline (or the start of the file) and the next         *)
(* newline, none of them missing, none read twice.                         *)
(***************************************************************************)
C20_EmittedLineSound ==
    \A i \in 1..Len(log) :
        IsLine(log[i]) =>
            /\ log[i].start = 0 \/ file[log[i].start] = NL
            /\ IsFileLine(log[i].start, log[i].text)

=============================================================================
